---- MODULE Spec2Model ----
(***************************************************************************)
(* State-machine model of the continuous panorama capture pipeline         *)
(* (src/photosphere.py, class ContinuousPanoramaGUI).                      *)
(*                                                                         *)
(* Threads: the Tk main thread (button handlers and the update_camera_view *)
(* timer), and per session one producer (capture_frames), one acceptance   *)
(* loop (auto_capture_loop) and one scheduler (continuous_stitch_loop).    *)
(* The worker threads are daemon threads that are never joined, so the     *)
(* threads of an earlier session may still be alive in a later one.        *)
(*                                                                         *)
(* A frame is identified by its production sequence number (the n-th       *)
(* successful cap.read()); 0 stands for None.  A panorama is identified by *)
(* the frame list the Stitcher fused it from; << >> stands for None.       *)
(* Time is counted in ticks of one capture interval unit.                  *)
(***************************************************************************)
EXTENDS Integers, Sequences, FiniteSets, TLC

(* ---------------------------- bounds ----------------------------------- *)
\* thread generations the model has room for
MaxSessions == 2
\* Spec: presses of Start, frames the camera delivers, clock ticks after
\* start-up, presses of Clear
MaxConnects == 1
MaxSeq == 4
TimeSpan == 2
MaxClears == 1
\* cap on the FrameStore (self.max_frames_for_360, 50 in the source), scaled
max_frames_for_360 == 5

(* ------------------------ program constants ---------------------------- *)
queue_maxsize == 5
scene_change_threshold == 25
capture_interval == 1
min_frames_before_stitch == 3
LoopClosureMinFrames == 10
LoopClosureCopy == 3
\* self.enable_360_mode, assigned once in __init__
enable_360_mode == TRUE

None == 0
NoPanorama == << >>
Sessions == 1..MaxSessions
\* change scores the gate can compute for two different frames
Scores == {20, 25, 40}
\* time.time() is far above capture_interval when the program starts
StartTime == capture_interval

VARIABLES
  \* camera
  cap,                    \* self.cap: 0 (None) or the handle id
  isOpened,               \* handle id -> BOOLEAN: cap.isOpened()
  seq,                    \* frames delivered by the camera so far
  \* fields of ContinuousPanoramaGUI
  running, auto_mode, frames, frame_queue, current_frame, previous_frame,
  total_frames, current_panorama, last_capture_time, stitch_queue,
  stitching_in_progress, stitch_status,
  saved_file,             \* the image last written by cv2.imwrite
  \* wall clock
  now,
  \* Tk main thread
  uiPc, uiFrame, connects, clears, viewPending,
  \* capture_frames threads
  prodPc, prodFrame,
  \* auto_capture_loop threads
  autoPc, autoTime, autoLast, autoScore, autoFrame,
  \* continuous_stitch_loop threads
  stPc, stList,
  \* history: fusion runs started (line 498) since the last append to frames
  \* (line 455)
  runsSinceAccept,
  \* self.camera_source: "webcam" or "stream" (any other text is a stream URL)
  camera_source,
  \* handle id -> number of cap.release() calls made on it
  releases,
  \* the text of the message box that is open ("" when none is)
  messagebox,
  \* viewer.py: the CylindricalViewer object and the position of main()
  viewer

camVars == <<cap, isOpened, seq>>
uiVars == <<uiPc, uiFrame, connects, clears, viewPending>>
prodVars == <<prodPc, prodFrame>>
autoVars == <<autoPc, autoTime, autoLast, autoScore, autoFrame>>
stVars == <<stPc, stList>>
vars == <<cap, isOpened, seq, running, auto_mode, frames, frame_queue,
          current_frame, previous_frame, total_frames, current_panorama,
          last_capture_time, stitch_queue, stitching_in_progress,
          stitch_status, saved_file, now, uiPc, uiFrame, connects, clears, viewPending,
          prodPc, prodFrame, autoPc, autoTime, autoLast, autoScore, autoFrame,
          stPc, stList, runsSinceAccept, camera_source, releases,
          messagebox, viewer>>

\* viewer.py is a program of its own: while photosphere.py runs, no viewer
\* object exists
ViewerOff == [pc |-> "off"]

(* ------------------------------ Init ----------------------------------- *)
\* ContinuousPanoramaGUI.__init__
Init ==
  /\ cap = None
  /\ isOpened = [h \in Sessions |-> FALSE]
  /\ seq = 0
  /\ running = FALSE
  /\ auto_mode = FALSE
  /\ frames = << >>
  /\ frame_queue = << >>
  /\ current_frame = None
  /\ previous_frame = None
  /\ total_frames = 0
  /\ current_panorama = NoPanorama
  /\ last_capture_time = 0
  /\ stitch_queue = 0
  /\ stitching_in_progress = FALSE
  /\ stitch_status = "Idle"
  /\ saved_file = NoPanorama
  /\ now = StartTime
  /\ uiPc = "idle"
  /\ uiFrame = None
  /\ connects = 0
  /\ clears = 0
  /\ viewPending = 0
  /\ prodPc = [s \in Sessions |-> "none"]
  /\ prodFrame = [s \in Sessions |-> None]
  /\ autoPc = [s \in Sessions |-> "none"]
  /\ autoTime = [s \in Sessions |-> 0]
  /\ autoLast = [s \in Sessions |-> 0]
  /\ autoScore = [s \in Sessions |-> 0]
  /\ autoFrame = [s \in Sessions |-> None]
  /\ stPc = [s \in Sessions |-> "none"]
  /\ stList = [s \in Sessions |-> << >>]
  /\ runsSinceAccept = 0
  /\ camera_source = "webcam"
  /\ releases = [h \in Sessions |-> 0]
  /\ messagebox = ""
  /\ viewer = ViewerOff

(* --------------------------- helpers ----------------------------------- *)
\* cap.read() on handle h: (False, None) is 0; a released or unopened handle
\* delivers nothing, an open one may deliver the next frame or fail
\* (maxSeq bounds the frames the camera delivers)
ReadResults(h, maxSeq) ==
  {None} \cup (IF h # None /\ isOpened[h] /\ seq < maxSeq THEN {seq + 1} ELSE {})

\* line 464: the condition under which a stitch request is posted
ShouldPostStitch(n) == n >= min_frames_before_stitch

\* PostStitch as a latch that is only set while no run is in flight
PostStitchIfIdle ==
  stitch_queue' = IF ShouldPostStitch(Len(frames)) /\ ~stitching_in_progress
                  THEN stitch_queue + 1
                  ELSE stitch_queue

\* lines 464-468: stitch_queue.put("stitch", block=False) on the unbounded queue
PostStitch ==
  stitch_queue' = IF ShouldPostStitch(Len(frames)) THEN stitch_queue + 1
                  ELSE stitch_queue

\* lines 308-310: frame = frame_queue.get_nowait(); current_frame = frame.copy()
ViewBody ==
  IF frame_queue # << >>
  THEN /\ current_frame' = Head(frame_queue)
       /\ frame_queue' = Tail(frame_queue)
  ELSE UNCHANGED <<current_frame, frame_queue>>

(* ------------------------- Tk main thread ------------------------------ *)
\* ConnectOpen without the second device: a failed open ends the call at once
ConnectOpenNoFallback(maxConnects, pressed) ==
  /\ uiPc = "idle" /\ ~running /\ connects < maxConnects
  /\ pressed
  /\ connects' = connects + 1
  /\ cap' = connects + 1
  /\ \E primary \in BOOLEAN :
       /\ isOpened' = [isOpened EXCEPT ![connects + 1] = primary]
       /\ uiPc' = IF primary THEN "c_flags" ELSE "box"
       /\ messagebox' = IF primary THEN messagebox ELSE "Connection error"
  /\ UNCHANGED <<seq, running, auto_mode, frames, frame_queue, current_frame,
                 previous_frame, total_frames, current_panorama,
                 last_capture_time, stitch_queue, stitching_in_progress,
                 stitch_status, saved_file, now, uiFrame, clears, viewPending,
                 prodVars, autoVars, stVars,
                 runsSinceAccept, camera_source, releases, viewer>>

\* toggle_connection -> connect_and_start, lines 204-225 and 254-255: open
\* the primary device and, for the webcam source only, device 1 when that
\* fails; a failure ends the call in the error box of line 255
\* (pressed tells when the user presses Start: an assumption on the user, not
\* a test of the program)
ConnectOpen(maxConnects, pressed) ==
  /\ uiPc = "idle" /\ ~running /\ connects < maxConnects
  /\ pressed
  /\ connects' = connects + 1
  /\ cap' = connects + 1
  /\ \E primary, fallback \in BOOLEAN :
       LET second == ~primary /\ camera_source = "webcam"
           ok == primary \/ (second /\ fallback)
       IN /\ isOpened' = [isOpened EXCEPT ![connects + 1] = ok]
          /\ uiPc' = IF ok THEN "c_flags" ELSE "box"
          /\ messagebox' = CASE ok -> messagebox
                              [] ~ok /\ second -> "No camera found"
                              [] OTHER -> "Connection error"
  /\ UNCHANGED <<seq, running, auto_mode, frames, frame_queue, current_frame,
                 previous_frame, total_frames, current_panorama,
                 last_capture_time, stitch_queue, stitching_in_progress,
                 stitch_status, saved_file, now, uiFrame, clears, viewPending,
                 prodVars, autoVars, stVars,
                 runsSinceAccept, camera_source, releases, viewer>>

\* lines 227-228
ConnectFlags ==
  /\ uiPc = "c_flags"
  /\ running' = TRUE
  /\ auto_mode' = TRUE
  /\ uiPc' = "c_clear"
  /\ UNCHANGED <<camVars, frames, frame_queue, current_frame, previous_frame,
                 total_frames, current_panorama, last_capture_time,
                 stitch_queue, stitching_in_progress, stitch_status,
                 saved_file, now, uiFrame, connects, clears, viewPending,
                 prodVars, autoVars, stVars,
                 runsSinceAccept,
                 camera_source, releases, messagebox, viewer>>

\* line 229
ConnectClear ==
  /\ uiPc = "c_clear"
  /\ frames' = << >>
  /\ uiPc' = "c_pano"
  /\ UNCHANGED <<camVars, running, auto_mode, frame_queue, current_frame,
                 previous_frame, total_frames, current_panorama,
                 last_capture_time, stitch_queue, stitching_in_progress,
                 stitch_status, saved_file, now, uiFrame, connects, clears,
                 viewPending, prodVars, autoVars, stVars,
                 runsSinceAccept,
                 camera_source, releases, messagebox, viewer>>

\* line 230
ConnectPano ==
  /\ uiPc = "c_pano"
  /\ current_panorama' = NoPanorama
  /\ uiPc' = "c_total"
  /\ UNCHANGED <<camVars, running, auto_mode, frames, frame_queue,
                 current_frame, previous_frame, total_frames,
                 last_capture_time, stitch_queue, stitching_in_progress,
                 stitch_status, saved_file, now, uiFrame, connects, clears,
                 viewPending, prodVars, autoVars, stVars,
                 runsSinceAccept,
                 camera_source, releases, messagebox, viewer>>

\* lines 231-243: reset the counter, start the producer thread, sleep
ConnectTotal ==
  /\ uiPc = "c_total"
  /\ total_frames' = 0
  /\ prodPc' = [prodPc EXCEPT ![connects] = "top"]
  /\ uiPc' = "c_init"
  /\ UNCHANGED <<camVars, running, auto_mode, frames, frame_queue,
                 current_frame, previous_frame, current_panorama,
                 last_capture_time, stitch_queue, stitching_in_progress,
                 stitch_status, saved_file, now, uiFrame, connects, clears,
                 viewPending, prodFrame, autoVars, stVars,
                 runsSinceAccept,
                 camera_source, releases, messagebox, viewer>>

\* take_initial_capture, lines 257-266, up to frame = current_frame.copy()
\* (line 444) of the capture_frame_for_panorama it calls
take_initial_capture(maxSeq) ==
  /\ uiPc = "c_init"
  /\ IF current_frame # None
     THEN /\ uiFrame' = current_frame
          /\ uiPc' = "ci_append"
          /\ UNCHANGED <<seq, current_frame>>
     ELSE \E r \in ReadResults(cap, maxSeq) :
            IF r # None
            THEN /\ seq' = r
                 /\ current_frame' = r
                 /\ uiFrame' = r
                 /\ uiPc' = "ci_append"
            ELSE /\ uiPc' = "c_threads"
                 /\ UNCHANGED <<seq, current_frame, uiFrame>>
  /\ UNCHANGED <<cap, isOpened, running, auto_mode, frames, frame_queue,
                 previous_frame, total_frames, current_panorama,
                 last_capture_time, stitch_queue, stitching_in_progress,
                 stitch_status, saved_file, now, connects, clears,
                 viewPending, prodVars, autoVars, stVars,
                 runsSinceAccept,
                 camera_source, releases, messagebox, viewer>>

\* capture_frame_for_panorama on the main thread, line 455
InitialAppend ==
  /\ uiPc = "ci_append"
  /\ frames' = Append(frames, uiFrame)
  /\ uiPc' = "ci_inc"
  /\ UNCHANGED <<camVars, running, auto_mode, frame_queue, current_frame,
                 previous_frame, total_frames, current_panorama,
                 last_capture_time, stitch_queue, stitching_in_progress,
                 stitch_status, saved_file, now, uiFrame, connects, clears,
                 viewPending, prodVars, autoVars, stVars,
                 camera_source, releases, messagebox, viewer>>
  /\ runsSinceAccept' = 0

\* capture_frame_for_panorama on the main thread, line 456
InitialCount ==
  /\ uiPc = "ci_inc"
  /\ total_frames' = total_frames + 1
  /\ uiPc' = "ci_put"
  /\ UNCHANGED <<camVars, running, auto_mode, frames, frame_queue,
                 current_frame, previous_frame, current_panorama,
                 last_capture_time, stitch_queue, stitching_in_progress,
                 stitch_status, saved_file, now, uiFrame, connects, clears,
                 viewPending, prodVars, autoVars, stVars,
                 runsSinceAccept,
                 camera_source, releases, messagebox, viewer>>

\* capture_frame_for_panorama on the main thread, lines 464-479
InitialPost ==
  /\ uiPc = "ci_put"
  /\ PostStitch
  /\ uiFrame' = None
  /\ uiPc' = "c_threads"
  /\ UNCHANGED <<camVars, running, auto_mode, frames, frame_queue,
                 current_frame, previous_frame, total_frames,
                 current_panorama, last_capture_time, stitching_in_progress,
                 stitch_status, saved_file, now, connects, clears,
                 viewPending, prodVars, autoVars, stVars,
                 runsSinceAccept,
                 camera_source, releases, messagebox, viewer>>

\* lines 246-252: start the acceptance and scheduler threads, then the first
\* update_camera_view, which arms its timer (line 329)
ConnectThreads ==
  /\ uiPc = "c_threads"
  /\ autoPc' = [autoPc EXCEPT ![connects] = "top"]
  /\ stPc' = [stPc EXCEPT ![connects] = "top"]
  /\ IF running
     THEN ViewBody /\ viewPending' = viewPending + 1
     ELSE UNCHANGED <<current_frame, frame_queue, viewPending>>
  /\ uiPc' = "idle"
  /\ UNCHANGED <<camVars, running, auto_mode, frames, previous_frame,
                 total_frames, current_panorama, last_capture_time,
                 stitch_queue, stitching_in_progress, stitch_status,
                 saved_file, now, uiFrame, connects, clears, prodVars,
                 autoTime, autoLast, autoScore, autoFrame, stList,
                 runsSinceAccept,
                 camera_source, releases, messagebox, viewer>>

connect_and_start(maxConnects, maxSeq, pressed) ==
  \/ ConnectOpen(maxConnects, pressed)
  \/ ConnectFlags
  \/ ConnectClear
  \/ ConnectPano
  \/ ConnectTotal
  \/ take_initial_capture(maxSeq)
  \/ InitialAppend
  \/ InitialCount
  \/ InitialPost
  \/ ConnectThreads

\* toggle_connection -> disconnect_and_stop, lines 268-282
disconnect_and_stop ==
  /\ uiPc = "idle" /\ running
  /\ running' = FALSE
  /\ auto_mode' = FALSE
  /\ isOpened' = IF cap # None THEN [isOpened EXCEPT ![cap] = FALSE]
                 ELSE isOpened
  /\ releases' = IF cap # None THEN [releases EXCEPT ![cap] = @ + 1]
                 ELSE releases
  /\ stitch_status' = "Idle"
  /\ UNCHANGED <<cap, seq, frames, frame_queue, current_frame, previous_frame,
                 total_frames, current_panorama, last_capture_time,
                 stitch_queue, stitching_in_progress, saved_file, now,
                 uiVars, prodVars, autoVars, stVars,
                 runsSinceAccept,
                 camera_source, messagebox, viewer>>

\* on_closing, lines 728-733: the window is closed and the main loop ends
on_closing ==
  /\ uiPc = "idle"
  /\ running' = FALSE
  /\ auto_mode' = FALSE
  /\ isOpened' = IF cap # None THEN [isOpened EXCEPT ![cap] = FALSE]
                 ELSE isOpened
  /\ releases' = IF cap # None THEN [releases EXCEPT ![cap] = @ + 1]
                 ELSE releases
  /\ uiPc' = "closed"
  /\ UNCHANGED <<cap, seq, frames, frame_queue, current_frame, previous_frame,
                 total_frames, current_panorama, last_capture_time,
                 stitch_queue, stitching_in_progress, stitch_status,
                 saved_file, now, uiFrame, connects, clears, viewPending,
                 prodVars, autoVars, stVars, runsSinceAccept,
                 camera_source, messagebox, viewer>>

\* show_settings -> apply_settings, lines 715-721: the source typed by the user
apply_settings ==
  /\ uiPc = "idle"
  /\ \E source \in {"webcam", "stream"} : camera_source' = source
  /\ messagebox' = "Settings applied"
  /\ uiPc' = "box"
  /\ UNCHANGED <<camVars, running, auto_mode, frames, frame_queue,
                 current_frame, previous_frame, total_frames,
                 current_panorama, last_capture_time, stitch_queue,
                 stitching_in_progress, stitch_status, saved_file, now,
                 uiFrame, connects, clears, viewPending, prodVars, autoVars,
                 stVars, runsSinceAccept, releases, viewer>>

\* messagebox.showerror / showwarning / showinfo (lines 255, 632, 648, 721)
\* return when the user presses OK; the box is modal, so no button of the
\* main window is served while it is open. After the box of line 648
\* end_and_save goes on to lines 650-651.
close_messagebox ==
  /\ uiPc = "box"
  /\ uiPc' = "idle"
  /\ messagebox' = ""
  /\ stitch_status' = IF messagebox = "Panorama saved" THEN "Complete"
                      ELSE stitch_status
  /\ UNCHANGED <<camVars, running, auto_mode, frames, frame_queue,
                 current_frame, previous_frame, total_frames,
                 current_panorama, last_capture_time, stitch_queue,
                 stitching_in_progress, saved_file, now, uiFrame, connects,
                 clears, viewPending, prodVars, autoVars, stVars,
                 runsSinceAccept, camera_source, releases, viewer>>

\* update_camera_view fired by root.after (lines 304-329); the timer also
\* fires inside the nested event loop of the save dialog and of a message
\* box
update_camera_view ==
  /\ uiPc \in {"idle", "dialog", "box"} /\ viewPending > 0
  /\ IF ~running
     THEN /\ viewPending' = viewPending - 1
          /\ UNCHANGED <<current_frame, frame_queue>>
     ELSE /\ ViewBody
          /\ UNCHANGED viewPending
  /\ UNCHANGED <<camVars, running, auto_mode, frames, previous_frame,
                 total_frames, current_panorama, last_capture_time,
                 stitch_queue, stitching_in_progress, stitch_status,
                 saved_file, now, uiPc, uiFrame, connects, clears, prodVars,
                 autoVars, stVars,
                 runsSinceAccept,
                 camera_source, releases, messagebox, viewer>>

\* EndCheck without the test of line 631: the save goes on with whatever
\* the panorama slot holds
EndCheckNoTest ==
  /\ uiPc = "idle" /\ running
  /\ auto_mode' = FALSE
  /\ uiPc' = "dialog"
  /\ UNCHANGED <<camVars, running, frames, frame_queue, current_frame,
                 previous_frame, total_frames, current_panorama,
                 last_capture_time, stitch_queue, stitching_in_progress,
                 stitch_status, saved_file, now, uiFrame, connects, clears,
                 viewPending, prodVars, autoVars, stVars, runsSinceAccept,
                 camera_source, releases, messagebox, viewer>>

\* end_and_save, lines 630-635 (the End & Save button is enabled between
\* connect and disconnect)
EndCheck ==
  /\ uiPc = "idle" /\ running
  /\ IF current_panorama = NoPanorama
     THEN /\ messagebox' = "No panorama to save"
          /\ uiPc' = "box"
          /\ UNCHANGED auto_mode
     ELSE /\ auto_mode' = FALSE
          /\ uiPc' = "dialog"
          /\ UNCHANGED messagebox
  /\ UNCHANGED <<camVars, running, frames, frame_queue, current_frame,
                 previous_frame, total_frames, current_panorama,
                 last_capture_time, stitch_queue, stitching_in_progress,
                 stitch_status, saved_file, now, uiFrame, connects, clears,
                 viewPending, prodVars, autoVars, stVars,
                 runsSinceAccept,
                 camera_source, releases, viewer>>

\* end_and_save, lines 637-649: the dialog returns a file name or nothing
EndWrite ==
  /\ uiPc = "dialog"
  /\ \E chosen \in BOOLEAN :
       IF chosen
       THEN /\ saved_file' = current_panorama
            /\ messagebox' = "Panorama saved"
            /\ uiPc' = "box"
            /\ UNCHANGED stitch_status
       ELSE /\ stitch_status' = "Complete"
            /\ uiPc' = "idle"
            /\ UNCHANGED <<saved_file, messagebox, viewer>>
  /\ UNCHANGED <<camVars, running, auto_mode, frames, frame_queue,
                 current_frame, previous_frame, total_frames,
                 current_panorama, last_capture_time, stitch_queue,
                 stitching_in_progress, now, uiFrame, connects, clears,
                 viewPending, prodVars, autoVars, stVars,
                 runsSinceAccept,
                 camera_source, releases, viewer>>

end_and_save == EndCheck \/ EndWrite

\* clear_panorama, line 652 (the Clear button is enabled between connect
\* and disconnect)
ClearFrames(maxClears) ==
  /\ uiPc = "idle" /\ running /\ clears < maxClears
  /\ clears' = clears + 1
  /\ frames' = << >>
  /\ uiPc' = "clr_pano"
  /\ UNCHANGED <<camVars, running, auto_mode, frame_queue, current_frame,
                 previous_frame, total_frames, current_panorama,
                 last_capture_time, stitch_queue, stitching_in_progress,
                 stitch_status, saved_file, now, uiFrame, connects,
                 viewPending, prodVars, autoVars, stVars,
                 runsSinceAccept,
                 camera_source, releases, messagebox, viewer>>

\* clear_panorama, line 653
ClearPano ==
  /\ uiPc = "clr_pano"
  /\ current_panorama' = NoPanorama
  /\ uiPc' = "clr_total"
  /\ UNCHANGED <<camVars, running, auto_mode, frames, frame_queue,
                 current_frame, previous_frame, total_frames,
                 last_capture_time, stitch_queue, stitching_in_progress,
                 stitch_status, saved_file, now, uiFrame, connects, clears,
                 viewPending, prodVars, autoVars, stVars,
                 runsSinceAccept,
                 camera_source, releases, messagebox, viewer>>

\* clear_panorama, lines 654-662
ClearTotal ==
  /\ uiPc = "clr_total"
  /\ total_frames' = 0
  /\ stitch_status' = "Idle"
  /\ uiPc' = "idle"
  /\ UNCHANGED <<camVars, running, auto_mode, frames, frame_queue,
                 current_frame, previous_frame, current_panorama,
                 last_capture_time, stitch_queue, stitching_in_progress,
                 saved_file, now, uiFrame, connects, clears, viewPending,
                 prodVars, autoVars, stVars,
                 runsSinceAccept,
                 camera_source, releases, messagebox, viewer>>

clear_panorama(maxClears) == ClearFrames(maxClears) \/ ClearPano \/ ClearTotal

\* the wall clock read by time.time()
Tick(timeSpan) ==
  /\ now < StartTime + timeSpan
  /\ now' = now + 1
  /\ UNCHANGED <<camVars, running, auto_mode, frames, frame_queue,
                 current_frame, previous_frame, total_frames,
                 current_panorama, last_capture_time, stitch_queue,
                 stitching_in_progress, stitch_status, saved_file, uiVars,
                 prodVars, autoVars, stVars,
                 runsSinceAccept,
                 camera_source, releases, messagebox, viewer>>

(* ------------------------ capture_frames ------------------------------- *)
\* frame_queue.put(frame, block=False) succeeds iff the queue is not full
QueueFull(q) == Len(q) >= queue_maxsize

\* capture_frames, lines 289-302, one step per statement that touches shared
\* state: "top" is the while test (after the sleep), "read" is cap.read(),
\* "put" the first put, "fullget"/"fullput" the handler of queue.Full.
\* A queue.Full raised by the second put is not caught and ends the thread.
capture_frames(s, maxSeq) ==
  /\ prodPc[s] \in {"top", "read", "put", "fullget", "fullput"}
  /\ CASE prodPc[s] = "top" ->
            /\ prodPc' = [prodPc EXCEPT ![s] = IF running THEN "read" ELSE "dead"]
            /\ UNCHANGED <<seq, frame_queue, prodFrame>>
       [] prodPc[s] = "read" ->
            \E r \in ReadResults(cap, maxSeq) :
              /\ seq' = IF r # None THEN r ELSE seq
              /\ prodFrame' = [prodFrame EXCEPT ![s] = r]
              /\ prodPc' = [prodPc EXCEPT ![s] = IF r # None THEN "put" ELSE "top"]
              /\ UNCHANGED frame_queue
       [] prodPc[s] = "put" ->
            IF ~QueueFull(frame_queue)
            THEN /\ frame_queue' = Append(frame_queue, prodFrame[s])
                 /\ prodFrame' = [prodFrame EXCEPT ![s] = None]
                 /\ prodPc' = [prodPc EXCEPT ![s] = "top"]
                 /\ UNCHANGED seq
            ELSE /\ prodPc' = [prodPc EXCEPT ![s] = "fullget"]
                 /\ UNCHANGED <<seq, frame_queue, prodFrame>>
       [] prodPc[s] = "fullget" ->
            IF frame_queue # << >>
            THEN /\ frame_queue' = Tail(frame_queue)
                 /\ prodPc' = [prodPc EXCEPT ![s] = "fullput"]
                 /\ UNCHANGED <<seq, prodFrame>>
            ELSE /\ prodFrame' = [prodFrame EXCEPT ![s] = None]
                 /\ prodPc' = [prodPc EXCEPT ![s] = "top"]
                 /\ UNCHANGED <<seq, frame_queue>>
       [] prodPc[s] = "fullput" ->
            /\ prodFrame' = [prodFrame EXCEPT ![s] = None]
            /\ UNCHANGED seq
            /\ IF ~QueueFull(frame_queue)
               THEN /\ frame_queue' = Append(frame_queue, prodFrame[s])
                    /\ prodPc' = [prodPc EXCEPT ![s] = "top"]
               ELSE /\ prodPc' = [prodPc EXCEPT ![s] = "dead"]
                    /\ UNCHANGED frame_queue
  /\ UNCHANGED <<cap, isOpened, running, auto_mode, frames, current_frame,
                 previous_frame, total_frames, current_panorama,
                 last_capture_time, stitch_queue, stitching_in_progress,
                 stitch_status, saved_file, now, uiVars, autoVars, stVars,
                 runsSinceAccept,
                 camera_source, releases, messagebox, viewer>>

(* ----------------------- auto_capture_loop ----------------------------- *)
\* TooSoon with the comparison reversed
TooSoonReversed(t, last) == t - last > capture_interval

\* line 373: the pass goes on only when this is false
TooSoon(t, last) == t - last < capture_interval

\* line 377 (maxFrames is self.max_frames_for_360)
CapReached(total, maxFrames) == total >= maxFrames

\* calculate_scene_change, lines 389-404: the mean absolute difference of two
\* frames; identical frames differ by 0
ChangeScores(f1, f2) == IF f1 = f2 THEN {0} ELSE Scores

\* SceneChanged with >= in place of >
SceneChangedOrEqual(score) == score >= scene_change_threshold

\* line 383
SceneChanged(score) == score > scene_change_threshold

\* lines 360-383: the while test, the current_frame test and the gates of
\* process_frame_for_capture, evaluated when the thread wakes from its sleep
AutoGate(s, maxFrames) ==
  /\ autoPc[s] = "top"
  /\ IF ~(auto_mode /\ running)
     THEN /\ autoPc' = [autoPc EXCEPT ![s] = "dead"]
          /\ UNCHANGED <<autoTime, autoLast, autoScore>>
     ELSE IF current_frame = None
             \/ TooSoon(now, last_capture_time)
             \/ CapReached(total_frames, maxFrames)
     THEN UNCHANGED <<autoPc, autoTime, autoLast, autoScore>>
     ELSE IF previous_frame = None
     THEN /\ autoPc' = [autoPc EXCEPT ![s] = "setprev"]
          /\ UNCHANGED <<autoTime, autoLast, autoScore>>
     ELSE \E score \in ChangeScores(previous_frame, current_frame) :
            IF SceneChanged(score)
            THEN /\ autoPc' = [autoPc EXCEPT ![s] = "copy"]
                 /\ autoTime' = [autoTime EXCEPT ![s] = now]
                 /\ autoLast' = [autoLast EXCEPT ![s] = last_capture_time]
                 /\ autoScore' = [autoScore EXCEPT ![s] = score]
            ELSE /\ autoPc' = [autoPc EXCEPT ![s] = "setprev"]
                 /\ UNCHANGED <<autoTime, autoLast, autoScore>>
  /\ UNCHANGED <<camVars, running, auto_mode, frames, frame_queue,
                 current_frame, previous_frame, total_frames,
                 current_panorama, last_capture_time, stitch_queue,
                 stitching_in_progress, stitch_status, saved_file, now,
                 uiVars, prodVars, autoFrame, stVars,
                 runsSinceAccept,
                 camera_source, releases, messagebox, viewer>>

\* capture_frame_for_panorama, lines 441-453: frame = current_frame.copy()
AutoCopy(s) ==
  /\ autoPc[s] = "copy"
  /\ autoFrame' = [autoFrame EXCEPT ![s] = current_frame]
  /\ autoPc' = [autoPc EXCEPT ![s] = "append"]
  /\ UNCHANGED <<camVars, running, auto_mode, frames, frame_queue,
                 current_frame, previous_frame, total_frames,
                 current_panorama, last_capture_time, stitch_queue,
                 stitching_in_progress, stitch_status, saved_file, now,
                 uiVars, prodVars, autoTime, autoLast, autoScore, stVars,
                 runsSinceAccept,
                 camera_source, releases, messagebox, viewer>>

\* capture_frame_for_panorama, line 455
AutoAppend(s) ==
  /\ autoPc[s] = "append"
  /\ frames' = Append(frames, autoFrame[s])
  /\ autoPc' = [autoPc EXCEPT ![s] = "inc"]
  /\ UNCHANGED <<camVars, running, auto_mode, frame_queue, current_frame,
                 previous_frame, total_frames, current_panorama,
                 last_capture_time, stitch_queue, stitching_in_progress,
                 stitch_status, saved_file, now, uiVars, prodVars, autoTime,
                 autoLast, autoScore, autoFrame, stVars,
                 camera_source, releases, messagebox, viewer>>
  /\ runsSinceAccept' = 0

\* capture_frame_for_panorama, line 456
AutoCount(s) ==
  /\ autoPc[s] = "inc"
  /\ total_frames' = total_frames + 1
  /\ autoPc' = [autoPc EXCEPT ![s] = "put"]
  /\ UNCHANGED <<camVars, running, auto_mode, frames, frame_queue,
                 current_frame, previous_frame, current_panorama,
                 last_capture_time, stitch_queue, stitching_in_progress,
                 stitch_status, saved_file, now, uiVars, prodVars, autoTime,
                 autoLast, autoScore, autoFrame, stVars,
                 runsSinceAccept,
                 camera_source, releases, messagebox, viewer>>

\* capture_frame_for_panorama, lines 464-479
AutoPost(s) ==
  /\ autoPc[s] = "put"
  /\ PostStitch
  /\ autoFrame' = [autoFrame EXCEPT ![s] = None]
  /\ autoPc' = [autoPc EXCEPT ![s] = "setlast"]
  /\ UNCHANGED <<camVars, running, auto_mode, frames, frame_queue,
                 current_frame, previous_frame, total_frames,
                 current_panorama, last_capture_time, stitching_in_progress,
                 stitch_status, saved_file, now, uiVars, prodVars, autoTime,
                 autoLast, autoScore, stVars,
                 runsSinceAccept,
                 camera_source, releases, messagebox, viewer>>

\* process_frame_for_capture, line 385
AutoSetLast(s) ==
  /\ autoPc[s] = "setlast"
  /\ last_capture_time' = autoTime[s]
  /\ autoPc' = [autoPc EXCEPT ![s] = "setprev"]
  /\ UNCHANGED <<camVars, running, auto_mode, frames, frame_queue,
                 current_frame, previous_frame, total_frames,
                 current_panorama, stitch_queue, stitching_in_progress,
                 stitch_status, saved_file, now, uiVars, prodVars, autoTime,
                 autoLast, autoScore, autoFrame, stVars,
                 runsSinceAccept,
                 camera_source, releases, messagebox, viewer>>

\* AutoSetPrev that moves the reference only in a pass that accepted a frame
AutoSetPrevOnAccept(s) ==
  /\ autoPc[s] = "setprev"
  /\ previous_frame' = IF autoScore[s] > 0 THEN current_frame
                     ELSE previous_frame
  /\ autoPc' = [autoPc EXCEPT ![s] = "top"]
  /\ autoTime' = [autoTime EXCEPT ![s] = 0]
  /\ autoLast' = [autoLast EXCEPT ![s] = 0]
  /\ autoScore' = [autoScore EXCEPT ![s] = 0]
  /\ UNCHANGED <<camVars, running, auto_mode, frames, frame_queue,
                 current_frame, total_frames, current_panorama,
                 last_capture_time, stitch_queue, stitching_in_progress,
                 stitch_status, saved_file, now, uiVars, prodVars, autoFrame,
                 stVars,
                 runsSinceAccept,
                 camera_source, releases, messagebox, viewer>>

\* process_frame_for_capture, line 387, then the sleep of line 365
AutoSetPrev(s) ==
  /\ autoPc[s] = "setprev"
  /\ previous_frame' = current_frame
  /\ autoPc' = [autoPc EXCEPT ![s] = "top"]
  /\ autoTime' = [autoTime EXCEPT ![s] = 0]
  /\ autoLast' = [autoLast EXCEPT ![s] = 0]
  /\ autoScore' = [autoScore EXCEPT ![s] = 0]
  /\ UNCHANGED <<camVars, running, auto_mode, frames, frame_queue,
                 current_frame, total_frames, current_panorama,
                 last_capture_time, stitch_queue, stitching_in_progress,
                 stitch_status, saved_file, now, uiVars, prodVars, autoFrame,
                 stVars,
                 runsSinceAccept,
                 camera_source, releases, messagebox, viewer>>

auto_capture_loop(s, maxFrames) ==
  \/ AutoGate(s, maxFrames)
  \/ AutoCopy(s)
  \/ AutoAppend(s)
  \/ AutoCount(s)
  \/ AutoPost(s)
  \/ AutoSetLast(s)
  \/ AutoSetPrev(s)

(* --------------------- continuous_stitch_loop -------------------------- *)
\* lines 486 and 495: the test that lets a fusion run start
StitchGuard(inProgress, n) == ~inProgress /\ n >= min_frames_before_stitch

\* lines 502-509: the list handed to the Stitcher; closed is the answer of
\* detect_full_circle
FrameListAlwaysExtended(snapshot, closed) ==
  IF enable_360_mode /\ closed
  THEN snapshot \o SubSeq(snapshot, 1, LoopClosureCopy)
  ELSE snapshot

FrameList(snapshot, closed) ==
  IF enable_360_mode /\ Len(snapshot) > LoopClosureMinFrames /\ closed
  THEN snapshot \o SubSeq(snapshot, 1, LoopClosureCopy)
  ELSE snapshot

\* what stitcher.stitch can answer: Stitcher_OK needs at least two images
StitchOutcomes(list) ==
  IF Len(list) >= 2 THEN {"OK", "FAIL", "EXC"} ELSE {"FAIL", "EXC"}

\* line 482: the while test
StitchTop(s) ==
  /\ stPc[s] = "top"
  /\ stPc' = [stPc EXCEPT ![s] = IF running THEN "wait" ELSE "dead"]
  /\ UNCHANGED <<camVars, running, auto_mode, frames, frame_queue,
                 current_frame, previous_frame, total_frames,
                 current_panorama, last_capture_time, stitch_queue,
                 stitching_in_progress, stitch_status, saved_file, now,
                 uiVars, prodVars, autoVars, stList,
                 runsSinceAccept,
                 camera_source, releases, messagebox, viewer>>

\* line 484: stitch_queue.get(timeout=1.0) returns a request or times out
StitchWait(s) ==
  /\ stPc[s] = "wait"
  /\ IF stitch_queue > 0
     THEN /\ stitch_queue' = stitch_queue - 1
          /\ stPc' = [stPc EXCEPT ![s] = "check"]
     ELSE /\ stPc' = [stPc EXCEPT ![s] = "top"]
          /\ UNCHANGED stitch_queue
  /\ UNCHANGED <<camVars, running, auto_mode, frames, frame_queue,
                 current_frame, previous_frame, total_frames,
                 current_panorama, last_capture_time, stitching_in_progress,
                 stitch_status, saved_file, now, uiVars, prodVars, autoVars,
                 stList,
                 runsSinceAccept,
                 camera_source, releases, messagebox, viewer>>

\* lines 486-496: the guard of the loop and the same guard on entry to
\* stitch_current_frames
StitchCheck(s) ==
  /\ stPc[s] = "check"
  /\ stPc' = [stPc EXCEPT ![s] =
                IF StitchGuard(stitching_in_progress, Len(frames))
                THEN "set" ELSE "top"]
  /\ UNCHANGED <<camVars, running, auto_mode, frames, frame_queue,
                 current_frame, previous_frame, total_frames,
                 current_panorama, last_capture_time, stitch_queue,
                 stitching_in_progress, stitch_status, saved_file, now,
                 uiVars, prodVars, autoVars, stList,
                 runsSinceAccept,
                 camera_source, releases, messagebox, viewer>>

\* lines 498-499
StitchSet(s) ==
  /\ stPc[s] = "set"
  /\ stitching_in_progress' = TRUE
  /\ stitch_status' = "Working"
  /\ stPc' = [stPc EXCEPT ![s] = "snap"]
  /\ UNCHANGED <<camVars, running, auto_mode, frames, frame_queue,
                 current_frame, previous_frame, total_frames,
                 current_panorama, last_capture_time, stitch_queue,
                 saved_file, now, uiVars, prodVars, autoVars, stList,
                 camera_source, releases, messagebox, viewer>>
  /\ runsSinceAccept' = runsSinceAccept + 1

\* lines 502-509: frame_list = frames.copy(), extended on loop closure
StitchSnapshot(s) ==
  /\ stPc[s] = "snap"
  /\ \E closed \in BOOLEAN :
       stList' = [stList EXCEPT ![s] = FrameList(frames, closed)]
  /\ stPc' = [stPc EXCEPT ![s] = "stitch"]
  /\ UNCHANGED <<camVars, running, auto_mode, frames, frame_queue,
                 current_frame, previous_frame, total_frames,
                 current_panorama, last_capture_time, stitch_queue,
                 stitching_in_progress, stitch_status, saved_file, now,
                 uiVars, prodVars, autoVars,
                 runsSinceAccept,
                 camera_source, releases, messagebox, viewer>>

\* StitchRun with the release of the flag in the try body instead of a
\* finally clause: an exception leaves the run without clearing the flag
StitchRunNoFinally(s) ==
  /\ stPc[s] = "stitch"
  /\ \E outcome \in StitchOutcomes(stList[s]) :
       /\ current_panorama' = IF outcome = "OK" THEN stList[s]
                              ELSE current_panorama
       /\ stitch_status' = CASE outcome = "OK" -> "Success"
                             [] outcome = "FAIL" -> "Failed"
                             [] OTHER -> "Error"
       /\ stPc' = [stPc EXCEPT ![s] = IF outcome = "EXC" THEN "top" ELSE "fin"]
       /\ stList' = [stList EXCEPT ![s] = IF outcome = "EXC" THEN << >> ELSE @]
  /\ UNCHANGED <<camVars, running, auto_mode, frames, frame_queue,
                 current_frame, previous_frame, total_frames,
                 last_capture_time, stitch_queue, stitching_in_progress,
                 saved_file, now, uiVars, prodVars, autoVars,
                 runsSinceAccept,
                 camera_source, releases, messagebox, viewer>>

\* StitchRun with the panorama slot assigned whatever the status is: a failed
\* run stores the empty result
StitchRunClearsOnFailure(s) ==
  /\ stPc[s] = "stitch"
  /\ \E outcome \in StitchOutcomes(stList[s]) :
       /\ current_panorama' = IF outcome = "OK" THEN stList[s]
                              ELSE NoPanorama
       /\ stitch_status' = CASE outcome = "OK" -> "Success"
                             [] outcome = "FAIL" -> "Failed"
                             [] OTHER -> "Error"
  /\ stPc' = [stPc EXCEPT ![s] = "fin"]
  /\ UNCHANGED <<camVars, running, auto_mode, frames, frame_queue,
                 current_frame, previous_frame, total_frames,
                 last_capture_time, stitch_queue, stitching_in_progress,
                 saved_file, now, uiVars, prodVars, autoVars, stList,
                 runsSinceAccept,
                 camera_source, releases, messagebox, viewer>>

\* lines 511-531: the Stitcher answers; success publishes the panorama, a
\* failure status or an exception only changes the status text
StitchRun(s) ==
  /\ stPc[s] = "stitch"
  /\ \E outcome \in StitchOutcomes(stList[s]) :
       /\ current_panorama' = IF outcome = "OK" THEN stList[s]
                              ELSE current_panorama
       /\ stitch_status' = CASE outcome = "OK" -> "Success"
                             [] outcome = "FAIL" -> "Failed"
                             [] OTHER -> "Error"
  /\ stPc' = [stPc EXCEPT ![s] = "fin"]
  /\ UNCHANGED <<camVars, running, auto_mode, frames, frame_queue,
                 current_frame, previous_frame, total_frames,
                 last_capture_time, stitch_queue, stitching_in_progress,
                 saved_file, now, uiVars, prodVars, autoVars, stList,
                 runsSinceAccept,
                 camera_source, releases, messagebox, viewer>>

\* line 534: the finally clause
StitchFinally(s) ==
  /\ stPc[s] = "fin"
  /\ stitching_in_progress' = FALSE
  /\ stList' = [stList EXCEPT ![s] = << >>]
  /\ stPc' = [stPc EXCEPT ![s] = "top"]
  /\ UNCHANGED <<camVars, running, auto_mode, frames, frame_queue,
                 current_frame, previous_frame, total_frames,
                 current_panorama, last_capture_time, stitch_queue,
                 stitch_status, saved_file, now, uiVars, prodVars, autoVars,
                 runsSinceAccept,
                 camera_source, releases, messagebox, viewer>>

continuous_stitch_loop(s) ==
  \/ StitchTop(s)
  \/ StitchWait(s)
  \/ StitchCheck(s)
  \/ StitchSet(s)
  \/ StitchSnapshot(s)
  \/ StitchRun(s)
  \/ StitchFinally(s)

(* --------------------------- specification ----------------------------- *)
Next ==
  \/ connect_and_start(MaxConnects, MaxSeq, TRUE)
  \/ close_messagebox
  \/ disconnect_and_stop
  \/ update_camera_view
  \/ end_and_save
  \/ clear_panorama(MaxClears)
  \/ Tick(TimeSpan)
  \/ \E s \in Sessions : capture_frames(s, MaxSeq)
  \/ \E s \in Sessions : auto_capture_loop(s, max_frames_for_360)
  \/ \E s \in Sessions : continuous_stitch_loop(s)

Spec == Init /\ [][Next]_vars

\* every scheduler thread that can take a step eventually takes one (the
\* operating system schedules each thread; the Stitcher call returns)
FairSpec == Spec /\ \A s \in Sessions : WF_vars(continuous_stitch_loop(s))

(* ------------------- restart within the scheduler's timeout ------------ *)
\* presses of Start, frames and clock ticks in SpecRestart
RestartConnects == 2
RestartSeq == 4
RestartSpan == 2

\* The scheduler waits up to 1 s in stitch_queue.get and a fusion run takes
\* longer still, while the producer and the acceptance loop poll running every
\* 30 ms and 100 ms: when Start is pressed again, the earlier session's
\* producer and acceptance loop have ended, its scheduler need not have.
FastLoopsEnded ==
  \A s \in Sessions :
    prodPc[s] \in {"none", "dead"} /\ autoPc[s] \in {"none", "dead"}

NextRestart ==
  \/ connect_and_start(RestartConnects, RestartSeq, FastLoopsEnded)
  \/ close_messagebox
  \/ disconnect_and_stop
  \/ update_camera_view
  \/ Tick(RestartSpan)
  \/ \E s \in Sessions : capture_frames(s, RestartSeq)
  \/ \E s \in Sessions : auto_capture_loop(s, max_frames_for_360)
  \/ \E s \in Sessions : continuous_stitch_loop(s)

SpecRestart == Init /\ [][NextRestart]_vars

(* ------------------ restart within the acceptance loop's sleep --------- *)
\* presses of Start, frames, clock ticks and the cap on the FrameStore in
\* SpecRestartAcceptance
AcceptConnects == 2
AcceptSeq == 3
AcceptSpan == 1
AcceptCap == 3

\* The acceptance loop sleeps 100 ms between passes and a pass applies the
\* cylindrical projection: Start can be pressed again before the earlier
\* session's acceptance loop has seen running False, and the loop then goes on
\* next to the new one.  The scheduler writes neither frames nor total_frames
\* and is left out; the earlier producer has ended.
ProducersEnded == \A s \in Sessions : prodPc[s] \in {"none", "dead"}

NextRestartAcceptance ==
  \/ connect_and_start(AcceptConnects, AcceptSeq, ProducersEnded)
  \/ close_messagebox
  \/ disconnect_and_stop
  \/ update_camera_view
  \/ Tick(AcceptSpan)
  \/ \E s \in Sessions : capture_frames(s, AcceptSeq)
  \/ \E s \in Sessions : auto_capture_loop(s, AcceptCap)

SpecRestartAcceptance == Init /\ [][NextRestartAcceptance]_vars

(* ----------------------- one undisturbed session ----------------------- *)
\* frames and clock ticks in SpecSession: one session in which the user
\* presses nothing after Start
SessionSeq == 5
SessionSpan == 3

NextSession ==
  \/ connect_and_start(MaxConnects, SessionSeq, TRUE)
  \/ close_messagebox
  \/ update_camera_view
  \/ Tick(SessionSpan)
  \/ \E s \in Sessions : capture_frames(s, SessionSeq)
  \/ \E s \in Sessions : auto_capture_loop(s, max_frames_for_360)
  \/ \E s \in Sessions : continuous_stitch_loop(s)

SpecSession == Init /\ [][NextSession]_vars

\* one session of four frames within two capture intervals
FusedSeq == 4
FusedSpan == 2

NextFused ==
  \/ connect_and_start(MaxConnects, FusedSeq, TRUE)
  \/ close_messagebox
  \/ update_camera_view
  \/ Tick(FusedSpan)
  \/ \E s \in Sessions : capture_frames(s, FusedSeq)
  \/ \E s \in Sessions : auto_capture_loop(s, max_frames_for_360)
  \/ \E s \in Sessions : continuous_stitch_loop(s)

\* the acceptance thread and the scheduler thread are scheduled whenever
\* they can take a step, and the Stitcher call returns
FairSpecSession ==
  /\ Init /\ [][NextFused]_vars
  /\ \A s \in Sessions : /\ WF_vars(auto_capture_loop(s, max_frames_for_360))
                          /\ WF_vars(continuous_stitch_loop(s))

(* ------------------- the capture queue and its two ends ---------------- *)
\* frames the camera delivers in SpecQueue: more than the queue holds
QueueSeq == 7

NextQueue ==
  \/ connect_and_start(MaxConnects, QueueSeq, TRUE)
  \/ close_messagebox
  \/ update_camera_view
  \/ \E s \in Sessions : capture_frames(s, QueueSeq)

SpecQueue == Init /\ [][NextQueue]_vars

(* ---------- the camera handle over start, stop, settings and close ----- *)
\* two presses of Start, seven frames: a producer of the first session may
\* still be alive in the second, and the queue can fill up
LifeConnects == 2
LifeSeq == 7

NextLifecycle ==
  \/ connect_and_start(LifeConnects, LifeSeq, TRUE)
  \/ close_messagebox
  \/ disconnect_and_stop
  \/ on_closing
  \/ apply_settings
  \/ update_camera_view
  \/ \E s \in Sessions : capture_frames(s, LifeSeq)

SpecLifecycle == Init /\ [][NextLifecycle]_vars

(* ------------- stop and restart under fair scheduling ------------------ *)
\* two presses of Start, two frames
StopConnects == 2
StopSeq == 2

NextStop ==
  \/ connect_and_start(StopConnects, StopSeq, TRUE)
  \/ close_messagebox
  \/ disconnect_and_stop
  \/ \E s \in Sessions : capture_frames(s, StopSeq)
  \/ \E s \in Sessions : auto_capture_loop(s, max_frames_for_360)
  \/ \E s \in Sessions : continuous_stitch_loop(s)

\* every thread that can take a step eventually takes one, and the main
\* thread finishes a connect_and_start it has begun; the user is free to
\* press or not to press a button
FairSpecStop ==
  /\ Init /\ [][NextStop]_vars
  /\ WF_vars(uiPc # "idle" /\ connect_and_start(StopConnects, StopSeq, TRUE))
  /\ \A s \in Sessions : /\ WF_vars(capture_frames(s, StopSeq))
                          /\ WF_vars(auto_capture_loop(s, max_frames_for_360))
                          /\ WF_vars(continuous_stitch_loop(s))

(* ------------- fusion runs on a store of ten frames and more ----------- *)
\* a session in progress that has accepted SnapMin..SnapMax frames; the
\* camera delivers SnapSeq frames in all, within SnapSpan capture intervals
SnapMin == 10
SnapMax == 11
SnapSeq == 12
SnapSpan == 1

\* the state of a session after n acceptances, the request for the last one
\* still on stitch_queue, all earlier runs failed, the three threads between
\* two iterations
InitSnapshot ==
  /\ cap = 1
  /\ isOpened = [h \in Sessions |-> h = 1]
  /\ \E n \in SnapMin..SnapMax :
       /\ seq = n
       /\ frames = [i \in 1..n |-> i]
       /\ current_frame = n
       /\ previous_frame = n
       /\ total_frames = n
  /\ running = TRUE
  /\ auto_mode = TRUE
  /\ frame_queue = << >>
  /\ current_panorama = NoPanorama
  /\ last_capture_time = StartTime
  /\ stitch_queue = 1
  /\ stitching_in_progress = FALSE
  /\ stitch_status = "Failed"
  /\ saved_file = NoPanorama
  /\ now = StartTime
  /\ uiPc = "idle"
  /\ uiFrame = None
  /\ connects = 1
  /\ clears = 0
  /\ viewPending = 1
  /\ prodPc = [s \in Sessions |-> IF s = 1 THEN "top" ELSE "none"]
  /\ prodFrame = [s \in Sessions |-> None]
  /\ autoPc = [s \in Sessions |-> IF s = 1 THEN "top" ELSE "none"]
  /\ autoTime = [s \in Sessions |-> 0]
  /\ autoLast = [s \in Sessions |-> 0]
  /\ autoScore = [s \in Sessions |-> 0]
  /\ autoFrame = [s \in Sessions |-> None]
  /\ stPc = [s \in Sessions |-> IF s = 1 THEN "top" ELSE "none"]
  /\ stList = [s \in Sessions |-> << >>]
  /\ runsSinceAccept = 0
  /\ camera_source = "webcam"
  /\ releases = [h \in Sessions |-> 0]
  /\ messagebox = ""
  /\ viewer = ViewerOff

NextSnapshot ==
  \/ update_camera_view
  \/ Tick(SnapSpan)
  \/ \E s \in Sessions : capture_frames(s, SnapSeq)
  \/ \E s \in Sessions : auto_capture_loop(s, SnapSeq)
  \/ \E s \in Sessions : continuous_stitch_loop(s)

SpecSnapshot == InitSnapshot /\ [][NextSnapshot]_vars

(* ------------------------- viewer.py ----------------------------------- *)
\* every variable of photosphere.py
photoVars == <<cap, isOpened, seq, running, auto_mode, frames, frame_queue,
               current_frame, previous_frame, total_frames, current_panorama,
               last_capture_time, stitch_queue, stitching_in_progress,
               stitch_status, saved_file, now, uiPc, uiFrame, connects,
               clears, viewPending, prodPc, prodFrame, autoPc, autoTime,
               autoLast, autoScore, autoFrame, stPc, stList, runsSinceAccept,
               camera_source, releases, messagebox>>

\* self.max_pitch, the clamps of the field of view and the steps of the keys
max_pitch == 45
FovMin == 30
FovMax == 150
FovStep == 5
AngleStep == 5
\* the defaults of CylindricalViewer.__init__
DefaultWidth == 800
DefaultHeight == 600
DefaultFov == 90

\* events handled by one run of the viewer
MaxEvents == 5
\* the command lines tried: --width, --height, --fov
ViewerArgs ==
  {[width |-> 800, height |-> 600, fov |-> 90],
   [width |-> 0, height |-> 600, fov |-> 90],
   [width |-> 640, height |-> 0, fov |-> 145],
   [width |-> 640, height |-> 480, fov |-> 10],
   [width |-> 640, height |-> 480, fov |-> 0],
   [width |-> 640, height |-> 480, fov |-> 180]}
\* pointer positions delivered to mouse_callback (even numbers: the
\* sensitivity of 0.5 then gives whole degrees)
MouseXs == {0, 20, 740}
MouseYs == {0, 100}
Keys == {"q", "r", "+", "-", "left", "right", "up", "down", "other"}

\* dx * self.sensitivity for an even dx
Sensitivity(d) == d \div 2
\* np.clip without the upper limit
ClipBelowOnly(x, lo, hi) == IF x < lo THEN lo ELSE x
\* np.clip
Clip(x, lo, hi) == IF x < lo THEN lo ELSE IF x > hi THEN hi ELSE x
Min(a, b) == IF a < b THEN a ELSE b
Max(a, b) == IF a > b THEN a ELSE b

\* no sampling map yet
NoMap == [width |-> -1, height |-> -1, fov |-> -1, yaw |-> -1, pitch |-> -1]
\* the sampling map is a function of the view raster, the field of view and
\* the two angles (the image is fixed): it is named by these arguments
MapOf(v) == [width |-> v.view_width, height |-> v.view_height, fov |-> v.fov,
             yaw |-> v.yaw, pitch |-> v.pitch]
\* generate_maps, lines 64-132: no test of its inputs; numpy divides by
\* zero without raising
generate_maps(v) == [v EXCEPT !.map = MapOf(v), !.generated = @ + 1]

\* main() has parsed the command line (line 196)
InitViewer ==
  /\ Init!1 /\ Init!2 /\ Init!3 /\ Init!4 /\ Init!5 /\ Init!6 /\ Init!7
  /\ Init!8 /\ Init!9 /\ Init!10 /\ Init!11 /\ Init!12 /\ Init!13 /\ Init!14
  /\ Init!15 /\ Init!16 /\ Init!17 /\ Init!18 /\ Init!19 /\ Init!20
  /\ Init!21 /\ Init!22 /\ Init!23 /\ Init!24 /\ Init!25 /\ Init!26
  /\ Init!27 /\ Init!28 /\ Init!29 /\ Init!30 /\ Init!31 /\ Init!32
  /\ Init!33 /\ Init!34 /\ Init!35
  /\ \E a \in ViewerArgs :
       viewer = [pc |-> "main", args |-> a, view_width |-> 0,
                 view_height |-> 0, fov |-> 0, yaw |-> 0, pitch |-> 0,
                 mouse_x |-> 0, mouse_y |-> 0, mouse_pressed |-> FALSE,
                 map |-> NoMap, generated |-> 0, events |-> 0]

\* line 199: CylindricalViewer.__init__ (lines 15-35), or ValueError when the
\* image cannot be read (line 10), caught at line 205
Construct ==
  /\ viewer.pc = "main"
  /\ \E loaded \in BOOLEAN :
       viewer' = IF loaded
                 THEN generate_maps([viewer EXCEPT !.pc = "constructed",
                                       !.view_width = DefaultWidth,
                                       !.view_height = DefaultHeight,
                                       !.fov = DefaultFov])
                 ELSE [viewer EXCEPT !.pc = "error"]
  /\ UNCHANGED photoVars

\* lines 200-202
Override ==
  /\ viewer.pc = "constructed"
  /\ viewer' = [viewer EXCEPT !.pc = "overridden",
                              !.view_width = viewer.args.width,
                              !.view_height = viewer.args.height,
                              !.fov = viewer.args.fov]
  /\ UNCHANGED photoVars

\* line 203
Regenerate ==
  /\ viewer.pc = "overridden"
  /\ viewer' = generate_maps([viewer EXCEPT !.pc = "render"])
  /\ UNCHANGED photoVars

\* lines 150-159: cv2.remap with the stored maps; OpenCV may refuse maps of
\* an empty raster with cv2.error, which main() does not catch
render_view ==
  /\ viewer.pc = "render"
  /\ \E refused \in BOOLEAN :
       /\ refused => (viewer.map.width = 0 \/ viewer.map.height = 0)
       /\ viewer' = [viewer EXCEPT !.pc = IF refused THEN "crashed"
                                          ELSE "waitKey"]
  /\ UNCHANGED photoVars

\* mouse_callback, lines 37-62, called from inside cv2.waitKey
mouse_callback ==
  /\ viewer.pc = "waitKey" /\ viewer.events < MaxEvents
  /\ \E event \in {"down", "up", "move"}, x \in MouseXs, y \in MouseYs :
       viewer' =
         CASE event = "down" ->
                [viewer EXCEPT !.mouse_pressed = TRUE, !.mouse_x = x,
                               !.mouse_y = y, !.events = @ + 1]
           [] event = "up" ->
                [viewer EXCEPT !.mouse_pressed = FALSE, !.events = @ + 1]
           [] event = "move" /\ viewer.mouse_pressed ->
                generate_maps(
                  [viewer EXCEPT
                     !.yaw = (@ + Sensitivity(x - viewer.mouse_x)) % 360,
                     !.pitch = Clip(@ - Sensitivity(y - viewer.mouse_y),
                                    -max_pitch, max_pitch),
                     !.mouse_x = x, !.mouse_y = y, !.events = @ + 1])
           [] OTHER -> [viewer EXCEPT !.events = @ + 1]
  /\ UNCHANGED photoVars

\* the keys whose handler changes the view, lines 164-185
ViewKeys == {"r", "+", "-", "left", "right", "up", "down"}

\* what the handler of a key assigns to the fields, lines 164-185
KeyEffect(v, key) ==
  CASE key = "r" -> [v EXCEPT !.yaw = 0, !.pitch = 0]
    [] key = "+" -> [v EXCEPT !.fov = Min(@ + FovStep, FovMax)]
    [] key = "-" -> [v EXCEPT !.fov = Max(@ - FovStep, FovMin)]
    [] key = "left" -> [v EXCEPT !.yaw = (@ - AngleStep) % 360]
    [] key = "right" -> [v EXCEPT !.yaw = (@ + AngleStep) % 360]
    [] key = "up" ->
         [v EXCEPT !.pitch = Clip(@ + AngleStep, -max_pitch, max_pitch)]
    [] key = "down" ->
         [v EXCEPT !.pitch = Clip(@ - AngleStep, -max_pitch, max_pitch)]
    [] OTHER -> v

\* the handler with the regeneration left out after '+' and '-'
KeyPressNoRegen(v, key) ==
  IF key \in {"+", "-"} THEN KeyEffect(v, key)
  ELSE IF key \in ViewKeys THEN generate_maps(KeyEffect(v, key))
  ELSE v

\* lines 161-185: each handler ends with generate_maps()
KeyPress(v, key) ==
  IF key \in ViewKeys THEN generate_maps(KeyEffect(v, key)) ELSE v

\* cv2.waitKey(1) returns a key or nothing, lines 161-185
waitKey ==
  /\ viewer.pc = "waitKey"
  /\ \/ viewer' = [viewer EXCEPT !.pc = "render"]
     \/ /\ viewer.events < MaxEvents
        /\ \E key \in Keys :
             viewer' = IF key = "q"
                       THEN [viewer EXCEPT !.pc = "quit", !.events = @ + 1]
                       ELSE [KeyPress(viewer, key) EXCEPT !.pc = "render",
                                                          !.events = @ + 1]
  /\ UNCHANGED photoVars

NextViewer ==
  \/ Construct
  \/ Override
  \/ Regenerate
  \/ render_view
  \/ mouse_callback
  \/ waitKey

SpecViewer == InitViewer /\ [][NextViewer]_vars

(* ------------------------------ claims --------------------------------- *)
\* thread s is inside a fusion run: it has set stitching_in_progress
\* (line 498) and has not yet executed the finally clause (line 534)
InRun(s) == stPc[s] \in {"snap", "stitch", "fin"}

\* C1: at most one fusion run is in progress at any time.
C1_AtMostOneRun == Cardinality({s \in Sessions : InRun(s)}) <= 1

C3_FrameStoreCapped == Len(frames) <= AcceptCap

\* C4: stitch requests are coalesced: after the last accepted frame at most
\* two fusion runs start (the one that was pending or in progress and exactly
\* one further run), however many requests were posted.
C4_RequestsCoalesced == runsSinceAccept <= 2

\* a step in which the consumer (update_camera_view, lines 308-310) takes a
\* frame from the queue: the queue loses its head and no producer moves
ConsumerRead ==
  /\ frame_queue # << >>
  /\ frame_queue' = Tail(frame_queue)
  /\ prodPc' = prodPc

\* C5: a consumer read returns the most recently produced frame, the one at
\* the tail of the queue, not an older queued frame.
C5_ReadsMostRecent ==
  [][ConsumerRead => current_frame' = frame_queue[Len(frame_queue)]]_vars

\* C6: the queue never holds more than queue_maxsize frames, and a producer
\* that found it full ends its step back at the top of its loop (it neither
\* blocks nor dies) with the frame it read at the tail of the queue.
C6_DropOldest ==
  /\ [](Len(frame_queue) <= queue_maxsize)
  /\ [][\A s \in Sessions :
          (prodPc[s] \in {"fullget", "fullput"}
           /\ prodPc'[s] \notin {"fullget", "fullput"})
          => /\ prodPc'[s] = "top"
             /\ frame_queue' # << >>
             /\ frame_queue'[Len(frame_queue')] = prodFrame[s]]_vars

\* a step that appends a frame to the FrameStore
AppendStep == Len(frames') = Len(frames) + 1

\* the append of line 455 made by acceptance thread s in a pass whose own
\* evaluation passed both gates: the interval (line 373) and the score
\* (line 383)
GatedAppend(s) ==
  /\ autoPc[s] = "append" /\ autoPc'[s] = "inc"
  /\ autoTime[s] - autoLast[s] >= capture_interval
  /\ autoScore[s] > scene_change_threshold

\* C7 as stated: every frame appended to the FrameStore passed both gates.
C7_EveryAppendGated ==
  [][AppendStep => \E s \in Sessions : GatedAppend(s)]_vars

\* C7 amended: every frame appended by the acceptance loop passed both gates
\* in the pass that appended it; the initial capture of connect_and_start (the
\* only append made by the main thread) is appended without either gate.
C7_AcceptanceAppendsGated ==
  [][(AppendStep /\ uiPc' = uiPc) => \E s \in Sessions : GatedAppend(s)]_vars

\* an acceptance pass has appended a frame that passed both gates, after the
\* ungated initial capture
C7_Witness ==
  \E s \in Sessions :
    /\ autoPc[s] = "inc"
    /\ autoTime[s] - autoLast[s] >= capture_interval
    /\ autoScore[s] > scene_change_threshold
    /\ Len(frames) >= 2
    /\ frames[Len(frames)] = autoFrame[s]

\* C8: one acceptance pass.  While the interval has not elapsed the pass
\* ends at the interval test and captures nothing.  A pass that captures
\* appends exactly one frame (at line 455 and nowhere else), adds exactly 1 to
\* total_frames (line 456) and sets last_capture_time to the time the pass
\* read (line 385).
C8_OnePass ==
  [][\A s \in Sessions :
       /\ (autoPc[s] = "top" /\ now - last_capture_time < capture_interval)
            => autoPc'[s] \in {"top", "dead"}
       /\ (autoPc[s] = "top" /\ autoPc'[s] = "copy")
            => /\ now - last_capture_time >= capture_interval
               /\ autoScore'[s] > scene_change_threshold
               /\ autoTime'[s] = now
               /\ UNCHANGED <<frames, total_frames, last_capture_time>>
       /\ (autoPc[s] = "copy" /\ autoPc'[s] # "copy")
            => /\ autoPc'[s] = "append"
               /\ UNCHANGED <<frames, total_frames, last_capture_time>>
       /\ (autoPc[s] = "append" /\ autoPc'[s] # "append")
            => /\ autoPc'[s] = "inc"
               /\ frames' = Append(frames, autoFrame[s])
               /\ UNCHANGED <<total_frames, last_capture_time>>
       /\ (autoPc[s] = "inc" /\ autoPc'[s] # "inc")
            => /\ autoPc'[s] = "put"
               /\ total_frames' = total_frames + 1
               /\ UNCHANGED <<frames, last_capture_time>>
       /\ (autoPc[s] = "put" /\ autoPc'[s] # "put")
            => /\ autoPc'[s] = "setlast"
               /\ UNCHANGED <<frames, total_frames, last_capture_time>>
       /\ (autoPc[s] = "setlast" /\ autoPc'[s] # "setlast")
            => /\ autoPc'[s] = "setprev"
               /\ last_capture_time' = autoTime[s]
               /\ UNCHANGED <<frames, total_frames>>
       /\ (autoPc[s] = "setprev" /\ autoPc'[s] # "setprev")
            => /\ autoPc'[s] = "top"
               /\ UNCHANGED <<frames, total_frames, last_capture_time>>]_vars

\* a capturing pass has run to its last statement: the frame it copied is the
\* last of the FrameStore and last_capture_time is the time the pass read
C8_Witness ==
  \E s \in Sessions :
    /\ autoPc[s] = "setprev"
    /\ autoTime[s] >= StartTime
    /\ last_capture_time = autoTime[s]
    /\ Len(frames) >= 2
    /\ total_frames = Len(frames)

\* C9: the Stitcher is never invoked on a snapshot holding fewer than
\* min_frames_before_stitch frames.
C9_SnapshotHasMinFrames ==
  \A s \in Sessions :
    stPc[s] = "stitch" => Len(stList[s]) >= min_frames_before_stitch

\* C10: a fusion run that ends in a failure status or an exception leaves
\* current_panorama, and every other field except the status text, as it was.
C10_FailureKeepsPanorama ==
  [][\A s \in Sessions :
       (stPc[s] = "stitch" /\ stPc'[s] = "fin"
        /\ stitch_status' \in {"Failed", "Error"})
       => UNCHANGED <<camVars, running, auto_mode, frames, frame_queue,
                      current_frame, previous_frame, total_frames,
                      current_panorama, last_capture_time, stitch_queue,
                      stitching_in_progress, saved_file, camera_source,
                      releases, messagebox, viewer>>]_vars

\* a run has just failed while the panorama of an earlier successful run is
\* still in the slot
C10_Witness ==
  \E s \in Sessions :
    /\ stPc[s] = "fin"
    /\ stitch_status \in {"Failed", "Error"}
    /\ current_panorama # NoPanorama

\* C11: end_and_save with an empty panorama slot is rejected: while the slot
\* is empty the save dialog is never opened and no file is written, and the
\* call that shows the warning leaves auto_mode, running, the FrameStore,
\* total_frames and current_panorama as they were.
C11_EmptySaveRejected ==
  [][/\ current_panorama = NoPanorama
          => (uiPc' # "dialog" /\ saved_file' = saved_file)
     /\ (messagebox' = "No panorama to save" /\ messagebox' # messagebox)
          => /\ current_panorama = NoPanorama
             /\ UNCHANGED <<auto_mode, running, frames, total_frames,
                            current_panorama, saved_file>>]_vars

\* the warning is shown in a session that holds frames and goes on
\* capturing
C11_Witness ==
  /\ messagebox = "No panorama to save"
  /\ current_panorama = NoPanorama
  /\ saved_file = NoPanorama
  /\ running /\ auto_mode
  /\ frames # << >>

\* C12: in the Ended state (end_and_save accepted: running is still True and
\* auto_mode is False) no step appends a frame to the FrameStore and no step
\* increments total_frames, also when an acceptance pass had passed the
\* auto_mode test of line 361 before the save.
C12_NoAppendAfterSave ==
  [][(running /\ ~auto_mode)
       => (Len(frames') <= Len(frames) /\ total_frames' <= total_frames)]_vars

\* C13: a successful start resets the session. The frame that the initial
\* capture stores is read from the camera of the new session in that step
\* (the main thread runs connect_and_start from the button press up to the
\* initial capture, so update_camera_view cannot have taken a frame of the
\* new session before), and when the threads of the new session are about
\* to be started the panorama slot is empty and total_frames equals the
\* FrameStore length.
C13_StartResets ==
  [][/\ (uiPc = "c_init" /\ uiPc' = "ci_append")
          => (seq' # seq /\ uiFrame' = seq')
     /\ (uiPc # "c_threads" /\ uiPc' = "c_threads")
          => (total_frames' = Len(frames') /\ current_panorama' = NoPanorama)
    ]_vars

\* C14: every camera handle is released exactly once: no handle is released
\* twice, and when the window has been closed no handle is left open.
C14_ReleasedExactlyOnce ==
  /\ \A h \in Sessions : releases[h] <= 1
  /\ uiPc = "closed" => \A h \in Sessions : ~isOpened[h]

\* C15: once a session has been stopped (its handle released by
\* disconnect_and_stop), each of its three loops eventually terminates,
\* whatever the user does afterwards.
C15_LoopsTerminate ==
  \A s \in Sessions :
    (releases[s] > 0)
      ~> (prodPc[s] = "dead" /\ autoPc[s] = "dead" /\ stPc[s] = "dead")

\* C16: a loop thread terminates only by finding its loop condition false
\* (running, and auto_mode for the acceptance loop): no error raised inside
\* an iteration ends the thread.
C16_LoopsSurviveErrors ==
  [][\A s \in Sessions :
       /\ (prodPc[s] # "dead" /\ prodPc'[s] = "dead")
            => (prodPc[s] = "top" /\ ~running)
       /\ (autoPc[s] # "dead" /\ autoPc'[s] = "dead")
            => (autoPc[s] = "top" /\ ~(auto_mode /\ running))
       /\ (stPc[s] # "dead" /\ stPc'[s] = "dead")
            => (stPc[s] = "top" /\ ~running)]_vars

C19_StitcherGetsSnapshot ==
  [][\A s \in Sessions :
       /\ (stPc[s] = "snap" /\ stPc'[s] = "stitch")
            => \/ stList'[s] = frames
               \/ /\ enable_360_mode /\ Len(frames) > 10
                  /\ stList'[s] = frames \o SubSeq(frames, 1, 3)
       /\ (stPc[s] = "stitch" /\ stPc'[s] = "stitch")
            => stList'[s] = stList[s]
       /\ (stPc[s] = "stitch" /\ stPc'[s] # "stitch")
            => current_panorama' \in {current_panorama, stList[s]}
       /\ stPc'[s] # stPc[s] => frames' = frames]_vars

\* a run holds a snapshot of 11 frames extended by the first 3 while the
\* store has already grown to 12
C19_Witness ==
  \E s \in Sessions :
    /\ stPc[s] = "stitch"
    /\ Len(stList[s]) = 14
    /\ SubSeq(stList[s], 12, 14) = SubSeq(frames, 1, 3)
    /\ Len(frames) = 12

\* C20: the FrameStore holds the frames in production order: the sequence
\* numbers the camera gave them never decrease along the store.
C20_ProductionOrder ==
  \A i, j \in DOMAIN frames : i < j => frames[i] <= frames[j]

\* the viewer object exists (line 199 has returned) and main() has not ended
\* in an error
ViewerAlive ==
  viewer.pc \in {"constructed", "overridden", "render", "waitKey", "quit"}

\* C21: in the viewer, yaw lies in [0, 360) and pitch in [-45, 45] after any
\* sequence of mouse and key events.
C21_AnglesInRange ==
  ViewerAlive => /\ 0 <= viewer.yaw /\ viewer.yaw < 360
                 /\ -45 <= viewer.pitch /\ viewer.pitch <= 45

\* yaw has wrapped below 0 and pitch has been clamped at the upper limit
C21_Witness ==
  /\ viewer.pc = "render"
  /\ viewer.yaw = 350
  /\ viewer.pitch = 45
  /\ viewer.generated > 2

\* C22: once main() has set the viewer up, the field of view lies in
\* [30, 150], for every --fov value and after any '+' and '-' keys.
C22_FovInRange ==
  viewer.pc \in {"render", "waitKey", "quit"}
    => (30 <= viewer.fov /\ viewer.fov <= 150)

\* C23: whenever the viewer renders, the stored sampling map was generated
\* from the current view raster size, field of view, yaw and pitch.
C23_MapCurrentAtRender ==
  viewer.pc = "render"
    => /\ viewer.map.width = viewer.view_width
       /\ viewer.map.height = viewer.view_height
       /\ viewer.map.fov = viewer.fov
       /\ viewer.map.yaw = viewer.yaw
       /\ viewer.map.pitch = viewer.pitch

\* a render after the command line changed the raster and keys and the
\* mouse changed the field of view and both angles
C23_Witness ==
  /\ viewer.pc = "render"
  /\ viewer.view_width = 640 /\ viewer.view_height = 480
  /\ viewer.fov = 20
  /\ viewer.yaw = 10
  /\ viewer.pitch = -45
  /\ viewer.map.fov = 20 /\ viewer.map.yaw = 10

\* C24: no sampling map is generated from a degenerate input (a raster
\* width or height of zero, a field of view <= 0 or >= 180).
C24_DegenerateRejected ==
  (ViewerAlive /\ viewer.map # NoMap)
    => /\ viewer.map.width > 0 /\ viewer.map.height > 0
       /\ viewer.map.fov > 0 /\ viewer.map.fov < 180

\* C25: every acceptance pass that got as far as the scene-change gate ends
\* by storing the current live frame as the previous-frame reference, also
\* when the gate returned false and nothing was accepted.
C25_ReferenceFollowsLiveFrame ==
  [][\A s \in Sessions :
       /\ (autoPc[s] = "top" /\ autoPc'[s] = "setprev")
            => UNCHANGED <<frames, total_frames, last_capture_time,
                           previous_frame>>
       /\ (autoPc[s] = "setprev" /\ autoPc'[s] = "top")
            => previous_frame' = current_frame]_vars

\* a pass whose gate returned false has just ended: the reference is a live
\* frame that was never accepted, newer than the last accepted one
C25_Witness ==
  \E s \in Sessions :
    /\ autoPc[s] = "top"
    /\ Len(frames) >= 2
    /\ previous_frame = current_frame
    /\ \A i \in DOMAIN frames : frames[i] < previous_frame
    /\ last_capture_time > 0

\* the steps made inside a "with self.panorama_lock" block: the publication
\* of lines 518-519 and the imwrite of lines 644-645
UnderPanoramaLock == (\E s \in Sessions : StitchRun(s)) \/ EndWrite

\* a step in which the producer thread s reads the camera handle (line 291)
ProducerRead(s) == prodPc[s] = "read" /\ prodPc'[s] \in {"put", "top"}

\* C26: every step that changes current_panorama or reads it for saving is
\* made holding panorama_lock, and every frame taken from the camera handle
\* is taken by a producer thread.
C26_LockedAndProducerOnly ==
  [][/\ (current_panorama' # current_panorama \/ saved_file' # saved_file)
          => UnderPanoramaLock
     /\ seq' # seq => \E s \in Sessions : ProducerRead(s)]_vars

\* no start, clear or save handler is part-way through on the main thread and
\* no acceptance pass is part-way through on any acceptance thread
NoOperationMidway ==
  /\ uiPc \in {"idle", "box"}
  /\ \A s \in Sessions : autoPc[s] \in {"none", "top", "dead"}

\* C27: whenever no capture, clear or start operation is part-way through,
\* total_frames equals the number of frames in the frame store.
C27_CounterMatchesStore ==
  NoOperationMidway => total_frames = Len(frames)

\* the threads of one kind that have been started and have not ended
AliveLoops(pc) == {s \in Sessions : pc[s] \notin {"none", "dead"}}

\* C28: at any moment at most one producer loop, one acceptance loop and one
\* scheduler loop is alive, also across stop and a second start.
C28_OneLoopOfEachKind ==
  /\ Cardinality(AliveLoops(prodPc)) <= 1
  /\ Cardinality(AliveLoops(autoPc)) <= 1
  /\ Cardinality(AliveLoops(stPc)) <= 1

\* C29: outside a start or clear handler, a non-empty current_panorama was
\* fused from a snapshot of the frame store taken after the most recent clear
\* or start: the store only grows between resets, so the fused list is a
\* prefix of the present store.
C29_NoStaleResult ==
  (uiPc \in {"idle", "dialog", "box"} /\ current_panorama # NoPanorama)
    => /\ Len(current_panorama) <= Len(frames)
       /\ \A i \in DOMAIN current_panorama : current_panorama[i] = frames[i]

\* C30: a pass of the acceptance loop that accepted a frame ends with the
\* previous-frame reference equal to the frame it appended (in a session with
\* one acceptance thread and no reset the frame it appended is the last of the
\* store), which is the live frame it evaluated.
C30_PassUsesOneFrame ==
  [][\A s \in Sessions :
       (/\ autoPc[s] = "setprev" /\ autoPc'[s] = "top"
        /\ autoScore[s] > scene_change_threshold
        /\ frames # << >>)
         => previous_frame' = frames[Len(frames)]]_vars

\* C31: no producer thread executes cap.read() (line 291) on a handle that
\* disconnect_and_stop or on_closing has already released.
C31_NoReadAfterRelease ==
  [][\A s \in Sessions :
       ProducerRead(s) => (cap # None /\ releases[cap] = 0)]_vars

====
